---- MODULE Spec2Model ----
(***************************************************************************)
(* brestagenda: the crawl command (crawlFn, getPage, extractEvents), the   *)
(* HTML formatter (writeHtml, sortedEntries) and the delta label           *)
(* (formatDuration), modelled from the latest version of the program.      *)
(***************************************************************************)
EXTENDS Integers, Sequences, FiniteSets, TLC

(***************************************************************************)
(* Bounds of the model.                                                    *)
(***************************************************************************)
\* listing addresses the site serves
MaxPages == 3
\* listItem articles on one listing page
MaxEvents == 2
\* GETs one crawl issues before the model stops following it
MaxFetch == 3
\* events in the JSON file the formatter reads
MaxFmtEvents == 2
\* largest |delta| the label is computed for
MaxDelta == 65

(***************************************************************************)
(* fmt.Sprintf("%d", n) for n >= 0.                                        *)
(***************************************************************************)
Digit(d) ==
  CASE d = 0 -> "0" [] d = 1 -> "1" [] d = 2 -> "2" [] d = 3 -> "3"
    [] d = 4 -> "4" [] d = 5 -> "5" [] d = 6 -> "6" [] d = 7 -> "7"
    [] d = 8 -> "8" [] d = 9 -> "9"

RECURSIVE Itoa(_)
Itoa(n) == IF n < 10 THEN Digit(n) ELSE Itoa(n \div 10) \o Digit(n % 10)

(***************************************************************************)
(* The site: addresses, hrefs and the responses a GET can get.             *)
(***************************************************************************)
StartPath == "/actus-agenda/agenda-132.html"

PagePath(k) == IF k = 1 THEN StartPath ELSE "/agenda-132.html?page=" \o Itoa(k)

Paths == {PagePath(k) : k \in 1..MaxPages}

\* an href url.Parse rejects (missing protocol scheme)
BadHref == ":"

\* link[rel='next'] href values: none, a listing address, or a malformed one
Hrefs == {""} \cup Paths \cup {BadHref}

UrlParseOk(p) == p # BadHref

\* a listItem article: "ok" has a parseable link and dates, "bad" has a
\* link url.Parse rejects or a datetime time.Parse rejects
ItemKinds == {"ok", "bad"}

ItemSeqs == UNION {[1..n -> ItemKinds] : n \in 0..MaxEvents}

NoBody == [neterr |-> FALSE, status |-> 0, readerr |-> FALSE, items |-> <<>>, next |-> ""]

\* what client.Get and the body give: a transport error, a status, a body
\* that cannot be read, or a document with its items and next link
Responses ==
  {[NoBody EXCEPT !.neterr = TRUE]}
    \cup {[NoBody EXCEPT !.status = s] : s \in {500, 404}}
    \cup {[NoBody EXCEPT !.status = 200, !.readerr = TRUE]}
    \cup {[NoBody EXCEPT !.status = 200, !.items = it, !.next = nx] :
            it \in ItemSeqs, nx \in Hrefs}

\* values of the --dump-dir flag: not given (empty string) or a directory
DumpDirs == {"", "dump"}

ServerError == "server error"

NoFile == [exists |-> FALSE, content |-> <<>>]

NoRun == [valid |-> FALSE, dumpDir |-> "", err |-> "", wrote |-> FALSE, content |-> <<>>]

VARIABLES
  server,     \* address -> response, for the addresses fetched so far
  dumpDir,    \* *crawlDumpDir
  pc,         \* position in crawlFn: "start", "loop", "finish", "done"
  path,       \* crawlFn's path
  events,     \* crawlFn's events accumulator
  pages,      \* crawlFn's pages counter
  gets,       \* addresses of the GETs issued by this run, in order
  err,        \* crawlFn's returned error, "" for nil
  outFile,    \* the file at outPath
  outAtStart, \* the file at outPath when this run started
  wrote,      \* this run created (truncated) outPath
  dumps,      \* page numbers whose <n>.html this run wrote into dumpDir
  prev,       \* what the previous invocation did
  fevents,    \* writeHtml's events argument
  today,      \* the local calendar day time.Now() falls on
  tz,         \* offset of time.Local from UTC, in hours
  fpc,        \* position in writeHtml: "loop", "done"
  idx,        \* index of the next event the loop handles
  Before,     \* entries.Before
  After,      \* entries.After
  HasAfter,   \* entries.HasAfter
  days,       \* the delta a label is asked for
  label,      \* the label computed for it
  lpc         \* "ask", "done"

crawlVars == <<server, dumpDir, pc, path, events, pages, gets, err, outFile,
               outAtStart, wrote, dumps, prev>>

fmtVars == <<fevents, today, tz, fpc, idx, Before, After, HasAfter>>

labelVars == <<days, label, lpc>>

vars == <<crawlVars, fmtVars, labelVars>>

\* the crawl command is not running
CrawlOff ==
  /\ server = [a \in {} |-> NoBody]
  /\ dumpDir = ""
  /\ pc = "off"
  /\ path = ""
  /\ events = <<>>
  /\ pages = 0
  /\ gets = <<>>
  /\ err = ""
  /\ outFile = NoFile
  /\ outAtStart = NoFile
  /\ wrote = FALSE
  /\ dumps = {}
  /\ prev = NoRun

\* the format command is not running
FmtOff ==
  /\ fevents = <<>>
  /\ today = 0
  /\ tz = 0
  /\ fpc = "off"
  /\ idx = 1
  /\ Before = <<>>
  /\ After = <<>>
  /\ HasAfter = FALSE

\* no label is being computed
LabelOff ==
  /\ days = 0
  /\ label = ""
  /\ lpc = "off"

(***************************************************************************)
(* extractEvents: one Event per listItem article in document order; the    *)
(* first item that fails to parse fails the whole page.                    *)
(***************************************************************************)
Event(addr, i) == [src |-> addr, item |-> i]

extractEvents(items, addr) ==
  IF \E i \in 1..Len(items) : items[i] = "bad"
    THEN [err |-> "parse", events |-> <<>>]
    ELSE [err |-> "", events |-> [i \in 1..Len(items) |-> Event(addr, i)]]

(***************************************************************************)
(* os.MkdirAll(dir, 0755): the empty path cannot be created (mkdir "":     *)
(* no such file or directory); any other path succeeds when the file       *)
(* system lets it.                                                         *)
(***************************************************************************)
MkdirAll(dir, fsOk) == dir # "" /\ fsOk

\* crawlCmd.Flag(...).String() returns a non-nil *string
FlagPtrNonNil == TRUE

(***************************************************************************)
(* getPage: result [err, dumped, Events, Next] for response rsp at addr.   *)
(* writeOk is whether ioutil.WriteFile of the dump succeeds.               *)
(***************************************************************************)
PageErr(e, dumped) == [err |-> e, dumped |-> dumped, Events |-> <<>>, Next |-> ""]

getPageAll500(rsp, addr, dir, writeOk) ==
  IF rsp.neterr THEN PageErr("transport", FALSE)
  ELSE IF rsp.status # 200 THEN PageErr(ServerError, FALSE)
  ELSE IF rsp.readerr THEN PageErr("read", FALSE)
  ELSE IF dir # "" /\ ~writeOk THEN PageErr("writedump", FALSE)
  ELSE LET x == extractEvents(rsp.items, addr) IN
       IF x.err # "" THEN PageErr(x.err, dir # "")
       ELSE [err |-> "", dumped |-> dir # "", Events |-> x.events, Next |-> rsp.next]

getPageNo500(rsp, addr, dir, writeOk) ==
  IF rsp.neterr THEN PageErr("transport", FALSE)
  ELSE IF rsp.status # 200 THEN PageErr("GET got " \o Itoa(rsp.status), FALSE)
  ELSE IF rsp.readerr THEN PageErr("read", FALSE)
  ELSE IF dir # "" /\ ~writeOk THEN PageErr("writedump", FALSE)
  ELSE LET x == extractEvents(rsp.items, addr) IN
       IF x.err # "" THEN PageErr(x.err, dir # "")
       ELSE [err |-> "", dumped |-> dir # "", Events |-> x.events, Next |-> rsp.next]

getPage(rsp, addr, dir, writeOk) ==
  IF rsp.neterr THEN PageErr("transport", FALSE)
  ELSE IF rsp.status # 200
    THEN IF rsp.status = 500
           THEN PageErr(ServerError, FALSE)
           ELSE PageErr("GET got " \o Itoa(rsp.status), FALSE)
  \* the body is read by ioutil.ReadAll when dumping, by goquery otherwise
  ELSE IF dir # "" /\ rsp.readerr THEN PageErr("read", FALSE)
  ELSE IF dir # "" /\ ~writeOk THEN PageErr("writedump", FALSE)
  ELSE IF rsp.readerr THEN PageErr("read", FALSE)
  ELSE LET x == extractEvents(rsp.items, addr) IN
       IF x.err # "" THEN PageErr(x.err, dir # "")
       ELSE [err |-> "", dumped |-> dir # "", Events |-> x.events, Next |-> rsp.next]

(***************************************************************************)
(* crawlFn.                                                                *)
(***************************************************************************)
Init ==
  /\ server = [a \in {} |-> NoBody]
  /\ dumpDir \in DumpDirs
  /\ pc = "start"
  /\ path = ""
  /\ events = <<>>
  /\ pages = 0
  /\ gets = <<>>
  /\ err = ""
  /\ outFile = NoFile
  /\ outAtStart = NoFile
  /\ wrote = FALSE
  /\ dumps = {}
  /\ prev = NoRun
  /\ FmtOff
  /\ LabelOff

\* lines 131-150: the dump directory is created, then the loop is entered
Setup ==
  /\ pc = "start"
  /\ \E fsOk \in BOOLEAN :
       IF FlagPtrNonNil /\ ~MkdirAll(dumpDir, fsOk)
         THEN /\ err' = "mkdir"
              /\ pc' = "done"
              /\ UNCHANGED path
         ELSE /\ err' = ""
              /\ pc' = "loop"
              /\ path' = StartPath
  /\ events' = <<>>
  /\ pages' = 0
  /\ UNCHANGED <<server, dumpDir, gets, outFile, outAtStart, wrote, dumps, prev,
               fmtVars, labelVars>>

\* lines 151-173: one iteration of the loop
Fetch ==
  /\ pc = "loop"
  /\ Len(gets) < MaxFetch
  /\ IF ~UrlParseOk(path)
       THEN /\ err' = "urlparse"
            /\ pc' = "done"
            /\ UNCHANGED <<server, gets, dumps, path, events, pages>>
       ELSE \E rsp \in Responses, writeOk \in BOOLEAN :
              /\ path \in DOMAIN server => rsp = server[path]
              /\ server' = [a \in DOMAIN server \cup {path} |->
                              IF a = path THEN rsp ELSE server[a]]
              /\ gets' = Append(gets, path)
              /\ LET p == getPage(rsp, path, dumpDir, writeOk) IN
                   /\ dumps' = IF p.dumped THEN dumps \cup {pages} ELSE dumps
                   /\ IF p.err # ""
                        THEN /\ IF p.err = ServerError
                                  THEN pc' = "finish" /\ err' = ""
                                  ELSE pc' = "done" /\ err' = p.err
                             /\ UNCHANGED <<path, events, pages>>
                        ELSE /\ path' = p.Next
                             /\ events' = events \o p.Events
                             /\ err' = ""
                             /\ IF p.Next = ""
                                  THEN pc' = "finish" /\ pages' = pages
                                  ELSE pc' = "loop" /\ pages' = pages + 1
  /\ UNCHANGED <<dumpDir, outFile, outAtStart, wrote, prev, fmtVars, labelVars>>

FinishNoCheck ==
  /\ pc = "finish"
  /\ \E createOk \in BOOLEAN, encodeOk \in BOOLEAN, n \in 0..Len(events) :
       IF ~createOk
         THEN /\ n = 0
              /\ encodeOk
              /\ err' = "create"
              /\ UNCHANGED <<outFile, wrote>>
         ELSE /\ wrote' = TRUE
              /\ IF encodeOk
                   THEN /\ n = Len(events)
                        /\ outFile' = [exists |-> TRUE, content |-> events]
                        /\ err' = ""
                   ELSE /\ n < Len(events) \/ n = 0
                        /\ outFile' = [exists |-> TRUE, content |-> SubSeq(events, 1, n)]
                        /\ err' = "encode"
  /\ pc' = "done"
  /\ UNCHANGED <<server, dumpDir, path, events, pages, gets, outAtStart, dumps, prev,
               fmtVars, labelVars>>

\* lines 174-187: the empty result is an error; otherwise os.Create creates
\* or truncates outPath and Encode writes the events into it as one JSON
\* array.  When os.Create fails the file is left as it was; when Encode fails
\* the file holds the part written so far, here the first n events.  Either
\* error is returned.
Finish ==
  /\ pc = "finish"
  /\ IF Len(events) = 0
       THEN /\ err' = "no event found"
            /\ UNCHANGED <<outFile, wrote>>
       ELSE \E createOk \in BOOLEAN, encodeOk \in BOOLEAN, n \in 0..Len(events) :
              IF ~createOk
                THEN /\ n = 0
                     /\ encodeOk
                     /\ err' = "create"
                     /\ UNCHANGED <<outFile, wrote>>
                ELSE /\ wrote' = TRUE
                     /\ IF encodeOk
                          THEN /\ n = Len(events)
                               /\ outFile' = [exists |-> TRUE, content |-> events]
                               /\ err' = ""
                          ELSE /\ n < Len(events)
                               /\ outFile' = [exists |-> TRUE,
                                              content |-> SubSeq(events, 1, n)]
                               /\ err' = "encode"
  /\ pc' = "done"
  /\ UNCHANGED <<server, dumpDir, path, events, pages, gets, outAtStart, dumps, prev,
               fmtVars, labelVars>>

\* dispatch/main: the command has returned; it is invoked a second time on
\* the same site and the same outPath with some --dump-dir
Rerun ==
  /\ pc = "done"
  /\ ~prev.valid
  /\ prev' = [valid |-> TRUE, dumpDir |-> dumpDir, err |-> err, wrote |-> wrote,
              content |-> IF wrote THEN outFile.content ELSE <<>>]
  /\ dumpDir' \in DumpDirs
  /\ pc' = "start"
  /\ path' = ""
  /\ events' = <<>>
  /\ pages' = 0
  /\ gets' = <<>>
  /\ err' = ""
  /\ outAtStart' = outFile
  /\ wrote' = FALSE
  /\ dumps' = {}
  /\ UNCHANGED <<server, outFile, fmtVars, labelVars>>

Next == Setup \/ Fetch \/ Finish \/ Rerun

Spec == Init /\ [][Next]_vars

(***************************************************************************)
(* Time.  An instant is a number of hours since 2021-01-01T00:00:00Z.      *)
(* time.Parse("2006-01-02", s) and the JSON decoder give UTC midnights,    *)
(* 24 * d for the day number d; the zero time.Time is 0001-01-01T00:00Z.   *)
(***************************************************************************)
\* hours in 24 * time.Hour
Day == 24

ZeroTime == 0 - 17706960

IsZero(t) == t = ZeroTime

\* int(x / y) for y > 0: Go's integer division and float-to-int conversion
\* both truncate toward zero
TruncDiv(x, y) == IF x >= 0 THEN x \div y ELSE 0 - ((0 - x) \div y)

\* first day of each month of a 365-day year, counted from 0
MonthStart == <<0, 31, 59, 90, 120, 151, 181, 212, 243, 273, 304, 334, 365>>

Pad2(n) == IF n < 10 THEN "0" \o Itoa(n) ELSE Itoa(n)

\* t.Format("2006-01-02") for a UTC instant t of 2021..2023
Format(t) ==
  LET d == t \div Day
      y == 2021 + d \div 365
      yd == d % 365
      m == CHOOSE k \in 1..12 : MonthStart[k] <= yd /\ yd < MonthStart[k + 1]
  IN  Itoa(y) \o "-" \o Pad2(m) \o "-" \o Pad2(yd - MonthStart[m] + 1)

Weekdays == <<"Di", "Lu", "Ma", "Me", "Je", "Ve", "Sa">>

\* int(t.Weekday()), Sunday = 0; 2021-01-01 was a Friday
Weekday(t) == (5 + t \div Day) % 7

\* fmt.Sprintf("%+d", n)
SignedStr(n) == IF n >= 0 THEN "+" \o Itoa(n) ELSE "-" \o Itoa(0 - n)

formatDurationFloor(d) ==
  IF d > 30 \/ d < 0 - 30
    THEN SignedStr(d \div 30) \o "m"
    ELSE SignedStr(d) \o "j"

formatDuration(d) ==
  IF d > 30 \/ d < 0 - 30
    THEN SignedStr(TruncDiv(d, 30)) \o "m"
    ELSE SignedStr(d) \o "j"

\* lines 318-321
DeltaStr(delta) == IF delta # 0 THEN formatDuration(delta) ELSE ""

(***************************************************************************)
(* writeHtml.                                                              *)
(***************************************************************************)
\* time.Date(now.Year(), now.Month(), now.Day(), 0, 0, 0, 0, time.Local)
Now == today * Day - tz

\* lines 301-304
EndDate(ev) == IF IsZero(ev.End) THEN ev.Start + Day ELSE ev.End + Day

EndDateInSame(ev) == EndDate(ev)

\* line 305
EndDateIn(ev) == EndDate(ev) - Day

\* line 306: the event is skipped
Skipped(ev) == ~(Now < EndDate(ev))

StartedLoose(ev) == ev.Start <= Now

\* lines 312 and 331: startDate.Before(now)
Started(ev) == ev.Start < Now

\* lines 309-330
Entry(ev) ==
  LET relDate == IF Started(ev) THEN EndDate(ev) ELSE ev.Start
      mult == IF Started(ev) THEN 0 - 1 ELSE 1
      delta == mult * TruncDiv(relDate - Now, Day)
  IN  [Link |-> ev.Link,
       Start |-> Format(ev.Start),
       End |-> Format(EndDateIn(ev)),
       DeltaStr |-> DeltaStr(delta),
       Delta |-> delta,
       Title |-> ev.Title,
       Weekday |-> Weekdays[Weekday(relDate) + 1]]

LessDesc(a, b) == a.Delta > b.Delta

\* sortedEntries.Less
Less(a, b) == a.Delta < b.Delta

\* sort.Sort(sortedEntries(s)): some permutation of s that Less orders; the
\* order of entries with equal Delta is unspecified
Sorted(s) ==
  {[i \in 1..Len(s) |-> s[p[i]]] :
     p \in {q \in [1..Len(s) -> 1..Len(s)] :
              /\ \A i, j \in 1..Len(s) : i # j => q[i] # q[j]
              /\ \A i, j \in 1..Len(s) : i < j => ~Less(s[q[j]], s[q[i]])}}

\* the calendar days events start and end on, and the days and zones the
\* formatter runs in
StartDays == {99, 100, 101, 131}

EndDays == {99, 100, 101, 130, 160}

Todays == {100, 101}

TZOffsets == {0 - 5, 0, 2}

Dates == {[Start |-> s * Day, End |-> e] :
            s \in StartDays, e \in {ZeroTime} \cup {d * Day : d \in EndDays}}

\* the decoded JSON array; the i-th event is titled and linked by i
EventLists ==
  UNION {{[i \in 1..n |-> [Title |-> Itoa(i), Link |-> "/evt/" \o Itoa(i),
                           Start |-> f[i].Start, End |-> f[i].End]] :
            f \in [1..n -> Dates]} : n \in 0..MaxFmtEvents}

FmtInit ==
  /\ CrawlOff
  /\ LabelOff
  /\ fevents \in EventLists
  /\ today \in Todays
  /\ tz \in TZOffsets
  /\ fpc = "loop"
  /\ idx = 1
  /\ Before = <<>>
  /\ After = <<>>
  /\ HasAfter = FALSE

\* lines 299-336: one iteration of the loop over events
LoopStep ==
  /\ fpc = "loop"
  /\ idx <= Len(fevents)
  /\ LET ev == fevents[idx] IN
       IF Skipped(ev)
         THEN UNCHANGED <<Before, After>>
         ELSE IF ~Started(ev)
                THEN After' = Append(After, Entry(ev)) /\ UNCHANGED Before
                ELSE Before' = Append(Before, Entry(ev)) /\ UNCHANGED After
  /\ idx' = idx + 1
  /\ UNCHANGED <<fevents, today, tz, fpc, HasAfter, crawlVars, labelVars>>

\* lines 337-340: both buckets are sorted and the template is executed
SortStep ==
  /\ fpc = "loop"
  /\ idx > Len(fevents)
  /\ Before' \in Sorted(Before)
  /\ After' \in Sorted(After)
  /\ HasAfter' = (Len(Before') > 0 /\ Len(After') > 0)
  /\ fpc' = "done"
  /\ UNCHANGED <<fevents, today, tz, idx, crawlVars, labelVars>>

FmtNext == LoopStep \/ SortStep

SpecFormat == FmtInit /\ [][FmtNext]_vars

(***************************************************************************)
(* The delta label as a function of delta.                                 *)
(***************************************************************************)
LabelInit ==
  /\ CrawlOff
  /\ FmtOff
  /\ days \in (0 - MaxDelta)..MaxDelta
  /\ label = ""
  /\ lpc = "ask"

\* lines 318-321 applied to delta = days
MakeLabel ==
  /\ lpc = "ask"
  /\ label' = DeltaStr(days)
  /\ lpc' = "done"
  /\ UNCHANGED <<days, crawlVars, fmtVars>>

LabelNext == MakeLabel

SpecLabel == LabelInit /\ [][LabelNext]_vars

(***************************************************************************)
(* Properties of the crawl, checked under Spec.                            *)
(***************************************************************************)
\* the response the k-th GET of this run got
Resp(k) == server[gets[k]]

Is200(r) == ~r.neterr /\ r.status = 200

Is500(r) == ~r.neterr /\ r.status = 500

\* a 200 page whose body is read and whose items all parse
GoodPage(r) == Is200(r) /\ ~r.readerr /\ \A i \in 1..Len(r.items) : r.items[i] = "ok"

\* the events of the page at address a, in document order
PageEvents(a) == [i \in 1..Len(server[a].items) |-> [src |-> a, item |-> i]]

\* the events of the pages at addresses s[1..n], page after page
RECURSIVE ConcatPages(_, _)
ConcatPages(s, n) == IF n = 0 THEN <<>> ELSE ConcatPages(s, n - 1) \o PageEvents(s[n])

Written(evs) == wrote /\ outFile = [exists |-> TRUE, content |-> evs]

\* the errors of creating and of encoding outPath
OutErrs == {"create", "encode"}

\* C1 as claimed: when the k-th GET (k >= 2) gets status 500 after the GETs
\* 1..k-1 got status 200 and yielded at least one event, no further GET is
\* issued, the crawl returns no error and writes exactly the events of pages
\* 1..k-1 in page order.
C1_Tolerated500 ==
  \A k \in 2..Len(gets) :
    ( /\ Is500(Resp(k))
      /\ \A j \in 1..(k - 1) : Is200(Resp(j))
      /\ Len(ConcatPages(gets, k - 1)) >= 1 )
    => /\ k = Len(gets)
       /\ pc \in {"finish", "done"}
       /\ pc = "done" => err = "" /\ Written(ConcatPages(gets, k - 1))

\* C1 as amended: in that case no further GET is issued and the crawl returns
\* either no error, having written exactly the events of pages 1..k-1 in page
\* order, or the error of creating outPath (the file is left as it was) or of
\* encoding into it (the file holds only a part of those events).
C1_Tolerated500Writable ==
  \A k \in 2..Len(gets) :
    ( /\ Is500(Resp(k))
      /\ \A j \in 1..(k - 1) : Is200(Resp(j))
      /\ Len(ConcatPages(gets, k - 1)) >= 1 )
    => /\ k = Len(gets)
       /\ pc \in {"finish", "done"}
       /\ pc = "done" =>
            /\ err \in {""} \cup OutErrs
            /\ err = "" => Written(ConcatPages(gets, k - 1))
            /\ err = "create" => ~wrote /\ outFile = outAtStart
            /\ err = "encode" =>
                 /\ wrote
                 /\ outFile.exists
                 /\ Len(outFile.content) < Len(ConcatPages(gets, k - 1))
                 /\ outFile.content =
                      SubSeq(ConcatPages(gets, k - 1), 1, Len(outFile.content))

C1_Witness ==
  /\ pc = "done"
  /\ Len(gets) = 3
  /\ Is500(Resp(3))
  /\ err = ""
  /\ Len(outFile.content) >= 2
  /\ wrote

\* a failure of a page other than status 500: a transport error, a status
\* that is neither 200 nor 500, or an item that fails to parse
FatalResp(r) ==
  \/ r.neterr
  \/ r.status \notin {200, 500}
  \/ Is200(r) /\ ~r.readerr /\ \E i \in 1..Len(r.items) : r.items[i] = "bad"

\* C2: a page failure other than status 500 on any page aborts the crawl with
\* an error and the output file is neither created nor written, even when
\* earlier pages yielded events.
C2_FatalAborts ==
  (Len(gets) >= 1 /\ FatalResp(Resp(Len(gets))))
    => /\ pc = "done"
       /\ err # ""
       /\ ~wrote
       /\ outFile = outAtStart

C2_Witness ==
  /\ pc = "done"
  /\ Len(gets) = 2
  /\ Resp(2).status = 404
  /\ Len(events) >= 1
  /\ err # ""
  /\ outFile = NoFile

\* the loop was left by a break: the last GET got status 500, or a good page
\* with an empty next link
LoopBroke ==
  /\ Len(gets) >= 1
  /\ LET r == Resp(Len(gets)) IN Is500(r) \/ (GoodPage(r) /\ r.next = "")

\* C3: when the loop ends (empty next link, or status 500, on the first page
\* too) with no event accumulated, the crawl returns an error and leaves the
\* output file as it was; the file is written only with at least one event.
C3_EmptyIsError ==
  /\ (pc = "done" /\ LoopBroke /\ Len(events) = 0)
       => (err # "" /\ ~wrote /\ outFile = outAtStart)
  /\ wrote => Len(events) >= 1

C3_Witness ==
  /\ pc = "done"
  /\ Len(gets) = 1
  /\ Is500(Resp(1))
  /\ err = "no event found"
  /\ ~wrote

\* the addresses from a following the next links, when they are fetched good
\* pages that reach an empty next link within n pages; <<>> otherwise
RECURSIVE ChainFrom(_, _)
ChainFrom(a, n) ==
  IF n = 0 \/ a \notin DOMAIN server THEN <<>>
  ELSE IF ~GoodPage(server[a]) THEN <<>>
  ELSE IF server[a].next = "" THEN <<a>>
  ELSE LET rest == ChainFrom(server[a].next, n - 1) IN
       IF rest = <<>> THEN <<>> ELSE <<a>> \o rest

Chain == ChainFrom(StartPath, MaxPages)

\* C4: for a finite chain of status-200 pages ending in an empty next link,
\* with at least one event overall, the crawl fetches each page once in chain
\* order, returns no error and writes the concatenation of the pages' events
\* (stated for the runs in which creating and encoding outPath do not fail).
C4_ChainCrawled ==
  (pc = "done" /\ Chain # <<>> /\ Len(ConcatPages(Chain, Len(Chain))) >= 1
     /\ err \notin OutErrs)
    => /\ err = ""
       /\ gets = Chain
       /\ Written(ConcatPages(Chain, Len(Chain)))

\* C10: on the same site, two invocations that differ only in --dump-dir and
\* in what the file system does to the dump (creating and encoding outPath
\* fails in neither) end the same way and write the same events.
C10_DumpIsSideEffect ==
  (pc = "done" /\ prev.valid /\ err \notin OutErrs /\ prev.err \notin OutErrs)
    => /\ (err = "") = (prev.err = "")
       /\ wrote = prev.wrote
       /\ wrote => outFile.content = prev.content

\* C11: the crawl ends for every assignment of next links to status-200
\* pages, cycles included, and no run fetches the same address twice.  On a
\* site that answers an address the same way each time, a second GET of an
\* address puts the loop back where it was, so it never ends: the claim
\* needs every run's GETs to be of distinct addresses.
C11_NoRefetch ==
  \A i, j \in 1..Len(gets) : i < j => gets[i] # gets[j]

(***************************************************************************)
(* Properties of the formatter, checked under SpecFormat.                  *)
(***************************************************************************)
\* the events the loop has handled
Handled == 1..(idx - 1)

\* how many entries of bucket b come from event i
CountIn(b, i) == Cardinality({k \in 1..Len(b) : b[k].Title = fevents[i].Title})

\* the event an entry was made from
EvOf(e) == fevents[CHOOSE i \in 1..Len(fevents) : fevents[i].Title = e.Title]

StartDay(ev) == ev.Start \div Day

\* the inclusive end day: End if present, else Start
LastDay(ev) == IF IsZero(ev.End) THEN ev.Start \div Day ELSE ev.End \div Day

\* C5: with the inclusive end day = End if present else Start, an event
\* (whose end day is not before its start) is in neither bucket when today
\* is after the end day, exactly once in Before and not in After when
\* Start < today <= end day, exactly once in After and not in Before when
\* today < Start.
C5_Bucketing ==
  \A i \in Handled :
    LET ev == fevents[i] IN
      StartDay(ev) <= LastDay(ev) =>
        /\ today > LastDay(ev) => CountIn(Before, i) = 0 /\ CountIn(After, i) = 0
        /\ (StartDay(ev) < today /\ today <= LastDay(ev))
             => CountIn(Before, i) = 1 /\ CountIn(After, i) = 0
        /\ today < StartDay(ev) => CountIn(After, i) = 1 /\ CountIn(Before, i) = 0

\* C6 as claimed: an event that starts today and is not yet over is in
\* Before; After holds only events that start after today.
C6_StartTodayIsBefore ==
  \A i \in Handled :
    LET ev == fevents[i] IN
      /\ (StartDay(ev) = today /\ today <= LastDay(ev)) => CountIn(Before, i) = 1
      /\ CountIn(After, i) >= 1 => StartDay(ev) > today

\* C6 as amended: a handled event is in Before only when its Start is
\* strictly before now and in After only when its Start is at or after now;
\* with local midnight at or before the UTC midnight of today, an event that
\* starts today and is not yet over is in After and not in Before.
C6_StartTodayIsAfter ==
  \A i \in Handled :
    LET ev == fevents[i] IN
      /\ CountIn(Before, i) >= 1 => ev.Start < today * Day - tz
      /\ CountIn(After, i) >= 1 => ev.Start >= today * Day - tz
      /\ (tz >= 0 /\ StartDay(ev) = today /\ today <= LastDay(ev))
           => CountIn(After, i) = 1 /\ CountIn(Before, i) = 0

C6_Witness ==
  /\ fpc = "done"
  /\ tz = 0
  /\ Len(Before) = 1
  /\ \E k \in 1..Len(After) : After[k].Start = Format(today * Day) /\ After[k].Delta = 0

NonDecreasingDelta(b) == \A i, j \in 1..Len(b) : i < j => b[i].Delta <= b[j].Delta

SoonestStartFirst(b) ==
  \A i, j \in 1..Len(b) : i < j => StartDay(EvOf(b[i])) <= StartDay(EvOf(b[j]))

\* C7 as claimed: after the sort each bucket is non-decreasing in delta, After
\* lists the soonest start first, and Before lists the soonest end first.
C7_SoonestEndFirst ==
  fpc = "done" =>
    /\ NonDecreasingDelta(Before) /\ NonDecreasingDelta(After)
    /\ SoonestStartFirst(After)
    /\ \A i, j \in 1..Len(Before) :
         i < j => LastDay(EvOf(Before[i])) <= LastDay(EvOf(Before[j]))

\* C7 as amended: after the sort each bucket is non-decreasing in delta, After
\* lists the soonest start first, and Before lists the latest end first.
C7_LatestEndFirst ==
  fpc = "done" =>
    /\ NonDecreasingDelta(Before) /\ NonDecreasingDelta(After)
    /\ SoonestStartFirst(After)
    /\ \A i, j \in 1..Len(Before) :
         i < j => LastDay(EvOf(Before[i])) >= LastDay(EvOf(Before[j]))

C7_Witness ==
  /\ fpc = "done"
  /\ Len(Before) = 2
  /\ Before[1].Title = "2"
  /\ Before[1].Delta < Before[2].Delta
  /\ LastDay(EvOf(Before[1])) > LastDay(EvOf(Before[2]))

\* C9: an entry of an event without End shows its start date as end date; an
\* entry of an event with End shows End itself, never the day after it.
C9_RenderedEnd ==
  \A b \in {Before, After} :
    \A k \in 1..Len(b) :
      LET ev == EvOf(b[k]) IN
        /\ b[k].Start = Format(ev.Start)
        /\ IsZero(ev.End) => b[k].End = b[k].Start
        /\ ~IsZero(ev.End) => b[k].End = Format(ev.End) /\ b[k].End # Format(ev.End + Day)

C9_Witness ==
  /\ fpc = "done"
  /\ \E k \in 1..Len(After) : IsZero(EvOf(After[k]).End) /\ After[k].End = "2021-04-12"
  /\ \E k \in 1..Len(Before) :
       /\ EvOf(Before[k]).End = 130 * Day
       /\ Before[k].Start = "2021-04-10"
       /\ Before[k].End = "2021-05-11"

(***************************************************************************)
(* Properties of the delta label, checked under SpecLabel.                 *)
(***************************************************************************)
Abs(n) == IF n >= 0 THEN n ELSE 0 - n

SignOf(n) == IF n > 0 THEN "+" ELSE "-"

\* C8: the label is a function of delta alone: empty for 0, the signed day
\* count with suffix j for 1 <= |delta| <= 30, the signed quotient of
\* |delta| by 30, rounded toward zero, with suffix m beyond.
C8_DeltaLabel ==
  lpc = "done" =>
    /\ days = 0 => label = ""
    /\ (1 <= Abs(days) /\ Abs(days) <= 30)
         => label = SignOf(days) \o Itoa(Abs(days)) \o "j"
    /\ Abs(days) > 30 => label = SignOf(days) \o Itoa(Abs(days) \div 30) \o "m"
    /\ days = 15 => label = "+15j"
    /\ days = 0 - 15 => label = "-15j"
    /\ days = 30 => label = "+30j"
    /\ days = 31 => label = "+1m"
    /\ days = 45 => label = "+1m"
    /\ days = 0 - 61 => label = "-2m"

C8_Witness == lpc = "done" /\ days = 0 - 61 /\ label = "-2m"

====
